---------------------------- MODULE Spec2Model ----------------------------
(***************************************************************************)
(* CareMind drugs_builder.py: the multi-source field resolution of         *)
(* build_records (NMPA online -> DrugBank -> offline NMPA label), the      *)
(* tenacity retry loop around the two clients' _get, the offline label     *)
(* scanner and the Chinese label parser.                                   *)
(*                                                                         *)
(* A Python str is a sequence of tokens; every token stands for a fixed    *)
(* piece of text (a heading, a run of content characters, a white space).  *)
(* An Optional[str] is a record [some, s]: None has some = FALSE.          *)
(***************************************************************************)
EXTENDS Naturals, Sequences, FiniteSets, TLC

\* ------------------------------------------------------------------------
\* Bounds of the model
\* ------------------------------------------------------------------------
\* Longest list of raw lines of the input file.
MaxLines == 2

\* Longest label text, in tokens, handed to the parser on its own.
MaxTextLen == 5

\* Most entries of a directory handed to scan_offline_label on its own.
MaxFiles == 3

\* Longest drug_interactions list handed to pick_fields on its own.
MaxInteractions == 32

\* Largest `retries` llm_chat is called with.
MaxRetries == 2

\* ------------------------------------------------------------------------
\* Values
\* ------------------------------------------------------------------------
None == [some |-> FALSE, s |-> <<>>]

Str(toks) == [some |-> TRUE, s |-> toks]

\* Python truthiness of an Optional[str]: neither None nor "".
Truthy(v) == v.some /\ v.s # <<>>

\* Python's `a or b` on Optional[str].
Or(a, b) == IF Truthy(a) THEN a ELSE b

Max2(a, b) == IF a >= b THEN a ELSE b

Min2(a, b) == IF a <= b THEN a ELSE b

RECURSIVE Pow2(_)
Pow2(n) == IF n = 0 THEN 1 ELSE 2 * Pow2(n - 1)

RECURSIVE Join(_, _)
\* sep.join(parts) for a sequence of strings.
Join(parts, sep) ==
  IF parts = <<>> THEN <<>>
  ELSE IF Len(parts) = 1 THEN parts[1]
  ELSE parts[1] \o sep \o Join(Tail(parts), sep)

\* ------------------------------------------------------------------------
\* Constants of drugs_builder.py
\* ------------------------------------------------------------------------
FIELDS == <<"indications", "contraindications", "interactions", "pregnancy_category">>

FieldSet == {FIELDS[k] : k \in 1..Len(FIELDS)}

Unannotated == Str(<<"Unannotated">>)

PregContraindicated == Str(<<"Contraindicated(ungraded)">>)

PregCaution == Str(<<"Caution(ungraded)">>)

SRC_ONLINE == Str(<<"NMPA-label(online)">>)

SRC_DRUGBANK == Str(<<"DrugBank">>)

SRC_DRUGBANK_APPENDED == <<" + DrugBank">>

SRC_OFFLINE == Str(<<"NMPA-label(offline)">>)

SRC_UNKNOWN == Str(<<"source-unknown">>)

\* stop_after_attempt(3)
MaxAttempts == 3

\* wait_exponential(multiplier=1, min=1, max=8)
WaitMultiplier == 1

WaitMin == 1

WaitMax == 8

\* intr_list[:30]
InteractionCap == 30

\* len(txt) > 50
MinTextLen == 50

\* rate_sec: float = 1.2, in tenths of a second
RateSecTenths == 12

\* {1,20} of NEXT_SECTION_RE
MarkerMin == 1

MarkerMax == 20

\* ------------------------------------------------------------------------
\* Label text: tokens
\*
\* The Chinese literals of the source are written as ASCII tokens:
\*   "[[IND]]" "[[CONTRA]]" "[[DRUG-INTERACT]]" "[[PREG-LACT]]"  the four
\*       bracketed headings of SECTION_PATTERNS (first alternative of each);
\*   "IND" "I N D" "INDz" "CONTRA" "INTERACT" "PREG-LACT" "PREG-USE"
\*       "GEST-USE"  their unbracketed alternatives;
\*   "[[DOSAGE]]"  a bracketed heading no pattern names; "[[]]"  a pair of
\*       brackets with nothing inside; "[[x*21]]"  a pair of brackets with 21
\*       characters inside;
\*   "forbidden" "strictly-forbidden" "use-prohibited"  the keywords of line
\*       140; "caution" "weigh-benefit" "risk" "benefit"  those of line 142;
\*   "::"  the full-width colon; "x" "y"  one content character; "x*40"
\*       "x*10"  a run of 40, of 10 content characters.
\* ------------------------------------------------------------------------
WS == {" ", "\n"}

\* The alternations of SECTION_PATTERNS, as the tokens each one matches.
HeadTokens(key) ==
  CASE key = "indications" -> {"[[IND]]", "IND", "I N D", "INDz"}
    [] key = "contraindications" -> {"[[CONTRA]]", "CONTRA"}
    [] key = "interactions" -> {"[[DRUG-INTERACT]]", "INTERACT"}
    [] key = "pregnancy_category" -> {"[[PREG-LACT]]", "PREG-LACT", "PREG-USE", "GEST-USE"}

\* [fullwidth-colon : \s]* after a heading.
HeadTrail == {"::", ":"} \cup WS

\* The tokens that are a pair of brackets around some characters.
BracketTokens ==
  {"[[IND]]", "[[CONTRA]]", "[[DRUG-INTERACT]]", "[[PREG-LACT]]", "[[DOSAGE]]", "[[]]", "[[x*21]]"}

ProhibitTokens == {"forbidden", "strictly-forbidden", "use-prohibited"}

CautionTokens == {"caution", "weigh-benefit"}

\* Number of characters of a token.
TokLen(t) ==
  CASE t \in {" ", "\n", "x", "y", "::", ":"} -> 1
    [] t \in {"forbidden", "caution", "CONTRA", "risk", "benefit"} -> 2
    [] t \in {"IND", "INDz"} -> 3
    [] t \in {"[[CONTRA]]", "INTERACT", "PREG-USE", "GEST-USE", "strictly-forbidden", "use-prohibited", "weigh-benefit"} -> 4
    [] t \in {"[[IND]]", "I N D"} -> 5
    [] t = "[[DOSAGE]]" -> 6
    [] t = "PREG-LACT" -> 8
    [] t = "[[DRUG-INTERACT]]" -> 8
    [] t = "[[PREG-LACT]]" -> 10
    [] t = "x*40" -> 40
    [] t = "x*10" -> 10
    [] t = "[[]]" -> 2
    [] t = "[[x*21]]" -> 23
    [] OTHER -> 1

\* A marker with more characters inside than NEXT_SECTION_RE has: any pair
\* of brackets that is not empty.
MarkerTokensUnbounded == {t \in BracketTokens : TokLen(t) - 2 >= MarkerMin}

\* NEXT_SECTION_RE: a bracketed marker with 1 to 20 characters inside.
MarkerTokens == {t \in BracketTokens : TokLen(t) - 2 \in MarkerMin..MarkerMax}

RECURSIVE StrLen(_)
\* len(txt)
StrLen(toks) == IF toks = <<>> THEN 0 ELSE TokLen(Head(toks)) + StrLen(Tail(toks))

RECURSIVE CollapseWS(_)
\* re.sub(r"\s+", " ", text)
CollapseWS(toks) ==
  IF toks = <<>> THEN <<>>
  ELSE IF Head(toks) \in WS
       THEN IF Len(toks) > 1 /\ toks[2] \in WS
            THEN CollapseWS(Tail(toks))
            ELSE <<" ">> \o CollapseWS(Tail(toks))
       ELSE <<Head(toks)>> \o CollapseWS(Tail(toks))

RECURSIVE LStrip(_)
LStrip(toks) ==
  IF toks # <<>> /\ Head(toks) \in WS THEN LStrip(Tail(toks)) ELSE toks

RECURSIVE RStrip(_)
RStrip(toks) ==
  IF toks # <<>> /\ toks[Len(toks)] \in WS
  THEN RStrip(SubSeq(toks, 1, Len(toks) - 1))
  ELSE toks

\* str.strip()
Strip(toks) == RStrip(LStrip(toks))

\* Index of the first token of toks in set S at or after position from; 0 if none.
FirstIn(toks, S, from) ==
  LET hits == {k \in from..Len(toks) : toks[k] \in S}
  IN IF hits = {} THEN 0 ELSE CHOOSE k \in hits : \A m \in hits : k <= m

RECURSIVE SkipTrail(_, _)
\* First position at or after k that the heading's [fullwidth-colon : \s]* does not consume.
SkipTrail(toks, k) ==
  IF k <= Len(toks) /\ toks[k] \in HeadTrail THEN SkipTrail(toks, k + 1) ELSE k

\* slice_section(text, start_pat), start_pat the pattern of `key`.
slice_section(text, key) ==
  LET m == FirstIn(text, HeadTokens(key), 1)
  IN IF m = 0 THEN None
     ELSE LET start == SkipTrail(text, m + 1)
              nxt == FirstIn(text, MarkerTokens, start)
              tail == IF nxt = 0
                      THEN SubSeq(text, start, Len(text))
                      ELSE SubSeq(text, start, nxt - 1)
              body == Strip(CollapseWS(tail))
          IN IF body # <<>> THEN Str(body) ELSE None

HasTok(toks, S) == \E k \in 1..Len(toks) : toks[k] \in S

\* r"(caution|weigh-benefit|risk.*benefit)" of line 142
HasCaution(toks) ==
  \/ HasTok(toks, CautionTokens)
  \/ \E a, b \in 1..Len(toks) : a < b /\ toks[a] = "risk" /\ toks[b] = "benefit"

\* The parser with the caution keywords tested before the prohibition ones.
parse_cn_label_text_caution_first(full_text) ==
  LET text == CollapseWS(full_text)
      preg_txt == slice_section(text, "pregnancy_category")
  IN [indications |-> slice_section(text, "indications"),
      contraindications |-> slice_section(text, "contraindications"),
      interactions |-> slice_section(text, "interactions"),
      pregnancy_category |->
        IF Truthy(preg_txt)
        THEN IF HasCaution(preg_txt.s) THEN PregCaution
             ELSE IF HasTok(preg_txt.s, ProhibitTokens) THEN PregContraindicated
             ELSE Unannotated
        ELSE Unannotated]

\* parse_cn_label_text(full_text)
parse_cn_label_text(full_text) ==
  LET text == CollapseWS(full_text)
      preg_txt == slice_section(text, "pregnancy_category")
  IN [indications |-> slice_section(text, "indications"),
      contraindications |-> slice_section(text, "contraindications"),
      interactions |-> slice_section(text, "interactions"),
      pregnancy_category |->
        IF Truthy(preg_txt)
        THEN IF HasTok(preg_txt.s, ProhibitTokens) THEN PregContraindicated
             ELSE IF HasCaution(preg_txt.s) THEN PregCaution
             ELSE Unannotated
        ELSE Unannotated]

\* ------------------------------------------------------------------------
\* DrugBank JSON
\*
\* A JSON value is [kind, obj]: kind "falsy" (null, [], {}, "", 0), "dict"
\* (obj is the mapping), "list" (obj is its first element when that is a
\* mapping, firstMapping tells) or "scalar" (a non-empty string, a number).
\* ------------------------------------------------------------------------
NoInteractions == [kind |-> "absent", items |-> <<>>]

EmptyObj ==
  [id |-> None, drugbank_id |-> None, indication |-> None, indications |-> None,
   contraindications |-> None, drug_interactions |-> NoInteractions,
   pregnancy_category |-> None, fda_pregnancy_category |-> None, extra |-> FALSE]

JFalsy == [kind |-> "falsy", firstMapping |-> FALSE, obj |-> EmptyObj]

JScalar == [kind |-> "scalar", firstMapping |-> FALSE, obj |-> EmptyObj]

JDict(o) == [kind |-> "dict", firstMapping |-> FALSE, obj |-> o]

JList(o) == [kind |-> "list", firstMapping |-> TRUE, obj |-> o]

\* A non-empty list whose first element is no mapping.
JListOfScalars == [kind |-> "list", firstMapping |-> FALSE, obj |-> EmptyObj]

\* bool(d) of a dict: it has a key.
ObjNonEmpty(o) == o # EmptyObj

\* bool(j)
JTruthy(j) ==
  CASE j.kind = "falsy" -> FALSE
    [] j.kind = "dict" -> ObjNonEmpty(j.obj)
    [] OTHER -> TRUE

\* One element of drug_interactions.
Interaction(desc, txt, name, drug) ==
  [mapping |-> TRUE, description |-> desc, text |-> txt, name |-> name, drug |-> drug]

NotAMapping ==
  [mapping |-> FALSE, description |-> None, text |-> None, name |-> None, drug |-> None]

RECURSIVE Snippets(_)
\* The loop of lines 303-307 over entries that are mappings.
Snippets(items) ==
  IF items = <<>> THEN <<>>
  ELSE LET it == Head(items)
           desc == Or(it.description, it.text)
           partner == Or(Or(it.name, it.drug), Str(<<>>))
       IN (IF Truthy(desc) THEN <<partner.s \o <<": ">> \o desc.s>> ELSE <<>>)
          \o Snippets(Tail(items))

\* The whole list, without a cap.
FirstEntriesAll(items) == items

\* intr_list[:30]
FirstEntries(items) == SubSeq(items, 1, Min2(Len(items), InteractionCap))

\* pick_fields(detail): [raised, picked]; raised when a .get() meets a value
\* that is no mapping (AttributeError).
pick_fields(detail) ==
  IF detail.kind # "dict"
  THEN [raised |-> TRUE, picked |-> [f \in FieldSet |-> None]]
  ELSE LET o == detail.obj
           intr == o.drug_interactions
           cut == IF intr.kind = "list"
                  THEN FirstEntries(intr.items)
                  ELSE <<>>
           bad == \E k \in 1..Len(cut) : ~cut[k].mapping
           snippets == IF bad THEN <<>> ELSE Snippets(cut)
       IN [raised |-> bad,
           picked |->
             [indications |-> Or(o.indication, o.indications),
              contraindications |-> o.contraindications,
              interactions |-> IF snippets # <<>>
                               THEN Str(Join(snippets, <<";">>))
                               ELSE None,
              pregnancy_category |-> Or(o.pregnancy_category, o.fda_pregnancy_category)]]

\* ------------------------------------------------------------------------
\* Offline labels
\*
\* A drug name and a file name's stem are sequences of characters. A file is
\* [stem, ext, readable, text, alt]: text is what BeautifulSoup (HTML) or
\* pdfminer (PDF) extracts, alt what PyPDF2 extracts, readable is FALSE when
\* opening or parsing it raises. A folder is [set, isdir, listable, files],
\* files in the order os.listdir gives them.
\* ------------------------------------------------------------------------
Lower(c) == IF c = "A" THEN "a" ELSE IF c = "B" THEN "b" ELSE c

LowerSeq(cs) == [k \in 1..Len(cs) |-> Lower(cs[k])]

\* re.search(re.escape(drug_name), fn, flags=re.IGNORECASE)
NameMatches(drug_name, stem) ==
  \E k \in 0..Len(stem) :
    /\ k + Len(drug_name) <= Len(stem)
    /\ LowerSeq(SubSeq(stem, k + 1, k + Len(drug_name))) = LowerSeq(drug_name)

\* p.lower().endswith((".html", ".htm"))
IsHtml(p) == p.ext \in {"html", "htm", "HTML", "HTM"}

\* p.lower().endswith(".pdf")
IsPdf(p) == p.ext \in {"pdf", "PDF"}

RECURSIVE CollapseNL(_)
\* re.sub(r"\n+", "\n", text)
CollapseNL(toks) ==
  IF toks = <<>> THEN <<>>
  ELSE IF Head(toks) = "\n" /\ Len(toks) > 1 /\ toks[2] = "\n"
       THEN CollapseNL(Tail(toks))
       ELSE <<Head(toks)>> \o CollapseNL(Tail(toks))

\* read_html_text(path)
read_html_text(p) == IF p.readable THEN Strip(CollapseNL(p.text)) ELSE <<>>

\* read_pdf_text(path)
read_pdf_text(p) ==
  IF p.readable THEN (IF p.text # <<>> THEN p.text ELSE p.alt) ELSE <<>>

\* The characters of an extension.
ExtChars(ext) ==
  CASE ext = "html" -> <<"h", "t", "m", "l">>
    [] ext = "htm" -> <<"h", "t", "m">>
    [] ext = "HTML" -> <<"H", "T", "M", "L">>
    [] ext = "HTM" -> <<"H", "T", "M">>
    [] ext = "pdf" -> <<"p", "d", "f">>
    [] ext = "PDF" -> <<"P", "D", "F">>
    [] ext = "txt" -> <<"t", "x", "t">>

\* fn of line 360: the name of a directory entry.
FileName(p) == p.stem \o <<".">> \o ExtChars(p.ext)

\* ord(c)
Code(c) ==
  CASE c = "." -> 46
    [] c = "A" -> 65 [] c = "B" -> 66 [] c = "D" -> 68 [] c = "F" -> 70
    [] c = "H" -> 72 [] c = "L" -> 76 [] c = "M" -> 77 [] c = "P" -> 80
    [] c = "T" -> 84
    [] c = "a" -> 97 [] c = "b" -> 98 [] c = "d" -> 100 [] c = "f" -> 102
    [] c = "h" -> 104 [] c = "l" -> 108 [] c = "m" -> 109 [] c = "p" -> 112
    [] c = "t" -> 116 [] c = "x" -> 120

RECURSIVE StrLess(_, _)
\* s < t on Python strings.
StrLess(s, t) ==
  IF t = <<>> THEN FALSE
  ELSE IF s = <<>> THEN TRUE
  ELSE IF Code(Head(s)) # Code(Head(t)) THEN Code(Head(s)) < Code(Head(t))
  ELSE StrLess(Tail(s), Tail(t))

\* A sort by path alone.
KeyLessPathOnly(p, q) == StrLess(FileName(p), FileName(q))

\* The sort key of line 364 compared: (0 if HTML else 1, p).
KeyLess(p, q) ==
  LET kp == IF IsHtml(p) THEN 0 ELSE 1
      kq == IF IsHtml(q) THEN 0 ELSE 1
  IN kp < kq \/ (kp = kq /\ StrLess(FileName(p), FileName(q)))

RECURSIVE Insert(_, _)
Insert(p, sorted) ==
  IF sorted = <<>> THEN <<p>>
  ELSE IF KeyLess(p, Head(sorted)) THEN <<p>> \o sorted
  ELSE <<Head(sorted)>> \o Insert(p, Tail(sorted))

RECURSIVE Sorted(_)
\* sorted(cand, key=...)
Sorted(cand) ==
  IF cand = <<>> THEN <<>>
  ELSE Insert(cand[Len(cand)], Sorted(SubSeq(cand, 1, Len(cand) - 1)))

\* cand_sorted of lines 359-364: the entries of the listing whose name holds
\* drug_name, HTML first, then by path.
cand_sorted(drug_name, folder) ==
  Sorted(SelectSeq(folder.files, LAMBDA p : NameMatches(drug_name, FileName(p))))

RECURSIVE FirstLongText(_)
\* The loop of lines 365-374.
FirstLongText(cands) ==
  IF cands = <<>> THEN None
  ELSE LET p == Head(cands)
           txt == IF IsHtml(p) THEN read_html_text(p)
                  ELSE IF IsPdf(p) THEN read_pdf_text(p)
                  ELSE <<>>
       IN IF (IsHtml(p) \/ IsPdf(p)) /\ txt # <<>> /\ StrLen(txt) > MinTextLen
          THEN Str(txt)
          ELSE FirstLongText(Tail(cands))

\* scan_offline_label(drug_name, folder): [raised, text]; os.listdir raises
\* on a directory that cannot be listed.
scan_offline_label(drug_name, folder) ==
  IF ~folder.set \/ ~folder.isdir THEN [raised |-> FALSE, text |-> None]
  ELSE IF ~folder.listable THEN [raised |-> TRUE, text |-> None]
  ELSE [raised |-> FALSE, text |-> FirstLongText(cand_sorted(drug_name, folder))]

\* ------------------------------------------------------------------------
\* Inputs of a run
\* ------------------------------------------------------------------------
\* Raw lines of the --in file.
RawLines == {<<" ">>, <<"a">>, <<" ", "b", "\n">>}

RECURSIVE SeqsUpTo(_, _)
\* The sequences over S of length at most n.
SeqsUpTo(S, n) ==
  IF n = 0 THEN {<<>>}
  ELSE LET shorter == SeqsUpTo(S, n - 1)
       IN shorter \cup {Append(q, x) : q \in {r \in shorter : Len(r) = n - 1}, x \in S}

InputFiles == SeqsUpTo(RawLines, MaxLines)

\* Label texts found on disk.
TextFull ==
  <<"[[IND]]", "x*40", "[[CONTRA]]", "y", "[[DRUG-INTERACT]]", ":", "x", " ", "\n",
    "[[PREG-LACT]]", "caution", "forbidden">>

TextPartial == <<"\n", "IND", "::", " ", "x*40", " ", " ", "x", "[[DOSAGE]]", "y", "\n">>

TextNoSection == <<"x*40", "y", "x*40">>

TextShort == <<"[[IND]]", "x", "[[CONTRA]]", "y">>

File(stem, ext, readable, text) ==
  [stem |-> stem, ext |-> ext, readable |-> readable, text |-> text, alt |-> <<>>]

FolderUnset == [set |-> FALSE, isdir |-> FALSE, listable |-> FALSE, files |-> <<>>]

FolderMissing == [set |-> TRUE, isdir |-> FALSE, listable |-> FALSE, files |-> <<>>]

FolderUnlistable == [set |-> TRUE, isdir |-> TRUE, listable |-> FALSE, files |-> <<>>]

FolderLabels ==
  [set |-> TRUE, isdir |-> TRUE, listable |-> TRUE,
   files |-> <<File(<<"A">>, "pdf", TRUE, TextFull),
               File(<<"a">>, "html", TRUE, TextShort),
               File(<<"a", "b">>, "HTM", FALSE, TextFull),
               File(<<"b">>, "txt", TRUE, TextFull),
               File(<<"x", "B">>, "html", TRUE, TextPartial)>>]

FolderPoor ==
  [set |-> TRUE, isdir |-> TRUE, listable |-> TRUE,
   files |-> <<File(<<"a">>, "pdf", TRUE, TextNoSection),
               File(<<"b">>, "pdf", FALSE, TextFull)>>]

Folders == {FolderUnset, FolderMissing, FolderUnlistable, FolderLabels, FolderPoor}

\* DrugBank detail objects.
DbText(t) == Str(<<t>>)

ObjFull ==
  [EmptyObj EXCEPT !.indication = DbText("db:indication"),
                   !.indications = DbText("db:indications"),
                   !.contraindications = DbText("db:contraindications"),
                   !.drug_interactions =
                      [kind |-> "list",
                       items |-> <<Interaction(DbText("db:desc1"), None, DbText("db:partner1"), None),
                                   Interaction(None, None, DbText("db:partner2"), None),
                                   Interaction(None, DbText("db:text3"), None, None)>>],
                   !.pregnancy_category = DbText("db:preg")]

ObjAltKeys ==
  [EmptyObj EXCEPT !.indication = Str(<<>>),
                   !.indications = DbText("db:indications"),
                   !.fda_pregnancy_category = DbText("db:fda_preg")]

ObjContraOnly == [EmptyObj EXCEPT !.contraindications = DbText("db:contraindications")]

\* A mapping that carries none of the four fields.
ObjNoFields == [EmptyObj EXCEPT !.extra = TRUE]

ObjEmptyStrings ==
  [EmptyObj EXCEPT !.indication = Str(<<>>), !.contraindications = Str(<<>>),
                   !.drug_interactions =
                      [kind |-> "list", items |-> <<Interaction(None, None, DbText("db:partner1"), None)>>]]

ObjInteractionsNotList ==
  [EmptyObj EXCEPT !.indication = DbText("db:indication"),
                   !.drug_interactions = [kind |-> "other", items |-> <<>>]]

ObjBadInteraction ==
  [EmptyObj EXCEPT !.indication = DbText("db:indication"),
                   !.drug_interactions =
                      [kind |-> "list",
                       items |-> <<Interaction(DbText("db:desc1"), None, None, None), NotAMapping>>]]

DetailObjs ==
  {ObjFull, ObjAltKeys, ObjContraOnly, ObjNoFields, ObjEmptyStrings,
   ObjInteractionsNotList, ObjBadInteraction}

\* Responses to GET drugs/<id>.
DetailResponses ==
  {JFalsy, JScalar, JListOfScalars, JList(ObjFull), JDict(EmptyObj)}
  \cup {JDict(o) : o \in DetailObjs}

ObjWithId == [EmptyObj EXCEPT !.id = DbText("DB001")]

ObjWithDrugbankId == [ObjContraOnly EXCEPT !.drugbank_id = DbText("DB002")]

\* Responses to GET drugs?name=<name>.
SearchResponses ==
  {JFalsy, JScalar, JListOfScalars, JList(ObjWithId), JDict(ObjWithDrugbankId),
   JList(ObjFull), JDict(ObjAltKeys), JList(ObjNoFields), JDict(ObjBadInteraction)}

\* ------------------------------------------------------------------------
\* State
\* ------------------------------------------------------------------------
VARIABLES
  in_file,       \* the raw lines of the --in file
  args,          \* the command line: no_nmpa_online, no_drugbank, nmpa_offline_dir
  api_key,       \* whether DRUGBANK_API_KEY is set
  names,         \* main's names
  use_drugbank,  \* build_records' use_drugbank
  idx,           \* position of the for loop over names
  rec,           \* the DrugRecord being resolved
  records,       \* build_records' records
  pc,            \* where the run stands
  get,           \* the running (or last finished) _get call of a client
  hist,          \* what the sources did for the record being resolved
  logs,          \* hist of every record of records, in the same order
  out,           \* what save_to_excel wrote
  ptext,         \* the label text handed to the parser on its own
  pout,          \* what the parser made of ptext
  input,         \* the arguments of a function called on its own
  output,        \* what that function returned
  llm            \* the running (or finished) llm_chat call of pipeline.py

vars == <<in_file, args, api_key, names, use_drugbank, idx, rec, records, pc, get, hist, logs, out,
          ptext, pout, input, output, llm>>

\* DrugRecord(name=name)
DrugRecord(name) ==
  [name |-> name, indications |-> None, contraindications |-> None,
   interactions |-> None, pregnancy_category |-> None, source |-> None]

\* all([rec.indications, rec.contraindications, rec.interactions, rec.pregnancy_category])
AllFields(r) == \A f \in FieldSet : Truthy(r[f])

\* any([...]) of the same four
AnyField(r) == \E f \in FieldSet : Truthy(r[f])

NoPick == [f \in FieldSet |-> None]

NewHist ==
  [online_calls |-> 0, fetch_calls |-> 0, db_calls |-> 0, off_calls |-> 0,
   on_text |-> FALSE, on_parsed |-> NoPick,
   db_detail |-> FALSE, picked |-> NoPick,
   off_text |-> FALSE, off_raised |-> FALSE, parsed |-> NoPick,
   on_filled |-> {}, db_filled |-> {}, off_filled |-> {}, full_after |-> {}]

\* input, output and llm when no function is called on its own.
NoCall == [op |-> "none"]

\* pout before the parser ran.
NoOutput == [key |-> "none", sliced |-> None, parsed |-> NoPick]

IdleGet ==
  [client |-> "none", requests |-> 0, outcomes |-> <<>>, waits |-> <<>>, status |-> "idle", pause |-> 0]

\* Reading the names without stripping the lines.
load_names_unstripped(lines) == SelectSeq(lines, LAMBDA ln : ln # <<>>)

\* load_names(path)
load_names(lines) ==
  LET stripped == [k \in 1..Len(lines) |-> Strip(lines[k])]
  IN SelectSeq(stripped, LAMBDA ln : ln # <<>>)

\* A client that takes itself for usable without a key.
available_always == TRUE

\* DrugBankClient.available()
available == api_key

use_nmpa_online == ~args.no_nmpa_online

\* nmpa_offline_dir as main passes it (line 490)
nmpa_offline_dir == args.nmpa_offline_dir

Init ==
  /\ in_file \in InputFiles
  /\ args \in [no_nmpa_online : BOOLEAN, no_drugbank : BOOLEAN, nmpa_offline_dir : Folders]
  /\ api_key \in BOOLEAN
  /\ names = <<>>
  /\ use_drugbank = FALSE
  /\ idx = 0
  /\ rec = DrugRecord(<<>>)
  /\ records = <<>>
  /\ pc = "main"
  /\ get = IdleGet
  /\ hist = NewHist
  /\ logs = <<>>
  /\ out = [written |-> FALSE, rows |-> <<>>]
  /\ ptext = <<>>
  /\ pout = NoOutput
  /\ input = NoCall
  /\ output = NoCall
  /\ llm = NoCall

\* ------------------------------------------------------------------------
\* The tenacity retry loop of NMPAClient._get and DrugBankClient._get
\* ------------------------------------------------------------------------
\* A wait that does not grow with the attempt number.
wait_fixed(n) == Max2(Max2(0, WaitMin), Min2(WaitMultiplier, WaitMax))

\* wait_exponential(multiplier=1, min=1, max=8) after attempt number n
wait_exponential(n) ==
  Max2(Max2(0, WaitMin), Min2(WaitMultiplier * Pow2(n - 1), WaitMax))

\* What one attempt can do: answer 200 ("ok"), raise a RequestException
\* ("transient": connection error, timeout, status other than 200) or, in
\* DrugBankClient._get, fail in resp.json() on a 200 answer whose body is
\* not JSON. What resp.json() raises then depends on the installed requests:
\* requests.exceptions.JSONDecodeError, a RequestException, since requests
\* 2.27 ("badjson"), and an exception that is no RequestException before
\* that ("other").
Outcomes(client) ==
  IF client = "drugbank" THEN {"ok", "transient", "badjson", "other"} ELSE {"ok", "transient"}

\* retry=retry_if_exception_type((requests.RequestException,))
retry_if_exception_type(outcome) == outcome \in {"transient", "badjson"}

\* The call the next attempt belongs to: the running one, or a new one.
CurrentGet(client) ==
  IF get.status = "running" THEN get
  ELSE [client |-> client, requests |-> 0, outcomes |-> <<>>, waits |-> <<>>, status |-> "running",
        pause |-> 0]

\* The sleep, in tenths of a second, a client makes after a request that
\* was answered: time.sleep(self.rate_sec) of line 195 in NMPAClient, nothing
\* in DrugBankClient.query_by_name.
rate_sleep(client) == IF client = "nmpa" THEN RateSecTenths ELSE 0

\* A retry loop that sleeps once more before it gives up.
AttemptWaitAfterLast(g, outcome) ==
  LET n == g.requests + 1
      h == [g EXCEPT !.requests = n, !.outcomes = Append(@, outcome)]
  IN CASE outcome = "ok" -> [h EXCEPT !.status = "returned", !.pause = rate_sleep(g.client)]
       [] ~retry_if_exception_type(outcome) -> [h EXCEPT !.status = "propagated"]
       [] OTHER ->
            IF n >= MaxAttempts
            THEN [h EXCEPT !.status = "raised", !.waits = Append(@, wait_exponential(n))]
            ELSE [h EXCEPT !.waits = Append(@, wait_exponential(n))]

\* One attempt of _get with the given outcome.
Attempt(g, outcome) ==
  LET n == g.requests + 1
      h == [g EXCEPT !.requests = n, !.outcomes = Append(@, outcome)]
  IN CASE outcome = "ok" -> [h EXCEPT !.status = "returned", !.pause = rate_sleep(g.client)]
       [] ~retry_if_exception_type(outcome) -> [h EXCEPT !.status = "propagated"]
       [] OTHER ->
            IF n >= MaxAttempts
            THEN [h EXCEPT !.status = "raised"]
            ELSE [h EXCEPT !.waits = Append(@, wait_exponential(n))]

\* ------------------------------------------------------------------------
\* main and build_records
\* ------------------------------------------------------------------------
\* The fields a step filled: empty before it, non-empty after it.
Filled(before, after) == {f \in FieldSet : ~Truthy(before[f]) /\ Truthy(after[f])}

\* The source steps after which all four fields were non-empty.
FullAfter(steps, step, r) == IF AllFields(r) THEN steps \cup {step} ELSE steps

\* DrugBank consulted for the first record only.
DrugBankGuardFirstOnly(r, enabled) == enabled /\ ~AllFields(r) /\ records = <<>>

\* Line 414: DrugBank is consulted.
DrugBankGuard(r, enabled) == enabled /\ ~AllFields(r)

\* The offline folder consulted for every record.
OfflineGuardAlways(r) == TRUE

\* The offline folder consulted whenever a field is empty.
OfflineGuardAnyGap(r) == ~AllFields(r)

\* Line 426: the offline folder is consulted.
OfflineGuard(r) == ~AnyField(r)

\* main, lines 480-485: an empty list of names ends the run (SystemExit).
Main ==
  /\ pc = "main"
  /\ names' = load_names(in_file)
  /\ pc' = IF names' = <<>> THEN "aborted" ELSE "setup"
  /\ UNCHANGED <<input, output, llm, ptext, pout, in_file, args, api_key, use_drugbank, idx, rec, records, get, hist, logs, out>>

\* build_records, lines 387-392.
Setup ==
  /\ pc = "setup"
  /\ use_drugbank' = IF ~args.no_drugbank /\ ~available THEN FALSE ELSE ~args.no_drugbank
  /\ records' = <<>>
  /\ idx' = 1
  /\ pc' = "loop"
  /\ UNCHANGED <<input, output, llm, ptext, pout, in_file, args, api_key, names, rec, get, hist, logs, out>>

\* Lines 394-395: the next name, or the return of line 445.
NextName ==
  /\ pc = "loop"
  /\ idx <= Len(names)
  /\ rec' = DrugRecord(names[idx])
  /\ hist' = NewHist
  /\ get' = IdleGet
  /\ pc' = "online"
  /\ UNCHANGED <<input, output, llm, ptext, pout, in_file, args, api_key, names, use_drugbank, idx, records, logs, out>>

\* Lines 445 and 493: build_records returns, save_to_excel writes the rows.
Save ==
  /\ pc = "loop"
  /\ idx > Len(names)
  /\ out' = [written |-> TRUE, rows |-> records]
  /\ pc' = "done"
  /\ UNCHANGED <<input, output, llm, ptext, pout, in_file, args, api_key, names, use_drugbank, idx, rec, records, get, hist, logs>>

\* Lines 405-411 with the text the loop of lines 401-404 left.
OnlineMerge(r, text) ==
  IF Truthy(text)
  THEN LET parsed == parse_cn_label_text(text.s)
       IN [r EXCEPT !.indications = parsed.indications,
                    !.contraindications = parsed.contraindications,
                    !.interactions = parsed.interactions,
                    !.pregnancy_category = parsed.pregnancy_category,
                    !.source = SRC_ONLINE]
  ELSE r

\* A search that finds one page whenever its request was answered.
search_label_urls_found(g) == IF g.status = "returned" THEN <<"url">> ELSE <<>>

\* search_label_urls(drug_name) once its _get has returned or raised: the
\* empty list either way (lines 197 and 200).
search_label_urls(g) == <<>>

\* What fetch_label_text(url) can return: None (line 217), or the stripped
\* text of the page, empty or not (line 215).
FetchResults == {None, Str(<<>>), Str(TextFull)}

\* The calls of fetch_label_text the loop of lines 401-404 makes: up to the
\* first non-empty text.
FetchCalls(texts) ==
  LET hits == {k \in 1..Len(texts) : Truthy(texts[k])}
  IN IF hits = {} THEN Len(texts) ELSE CHOOSE k \in hits : \A m \in hits : k <= m

RECURSIVE FirstFetched(_)
\* The loop of lines 401-404 over the texts fetch_label_text returned.
FirstFetched(texts) ==
  IF texts = <<>> THEN None
  ELSE IF Truthy(Head(texts)) THEN Head(texts)
  ELSE FirstFetched(Tail(texts))

\* Line 397 false: the online source is switched off.
OnlineSkip ==
  /\ pc = "online"
  /\ ~use_nmpa_online
  /\ pc' = "drugbank"
  /\ UNCHANGED <<input, output, llm, ptext, pout, in_file, args, api_key, names, use_drugbank, idx, rec, records, get, hist, logs, out>>

\* Lines 397-411: one attempt of the _get of search_label_urls; when the
\* call is over, the rest of the online step.
OnlineStep ==
  /\ pc = "online"
  /\ use_nmpa_online
  /\ \E outcome \in Outcomes("nmpa") :
       LET g == Attempt(CurrentGet("nmpa"), outcome)
       IN /\ get' = g
          /\ IF g.status = "running"
             THEN UNCHANGED <<rec, hist, pc>>
             ELSE \E fetched \in [1..Len(search_label_urls(g)) -> FetchResults] :
                    LET text == FirstFetched(fetched)
                        r == OnlineMerge(rec, text)
                    IN /\ rec' = r
                       /\ hist' = [hist EXCEPT !.online_calls = @ + 1,
                                                !.fetch_calls = FetchCalls(fetched),
                                                !.on_text = Truthy(text),
                                                !.on_parsed = IF Truthy(text)
                                                              THEN parse_cn_label_text(text.s)
                                                              ELSE NoPick,
                                                !.on_filled = Filled(rec, r),
                                                !.full_after = FullAfter(@, "online", r)]
                       /\ pc' = "drugbank"
  /\ UNCHANGED <<input, output, llm, ptext, pout, in_file, args, api_key, names, use_drugbank, idx, records, logs, out>>

\* Lines 416-423 with the detail query_by_name returned (JFalsy for None):
\* the new record and whether pick_fields raised.
DrugBankMerge(r, detail) ==
  IF JTruthy(detail)
  THEN LET pf == pick_fields(detail)
           picked == pf.picked
       IN [raised |-> pf.raised,
           picked |-> picked,
           rec |-> IF pf.raised THEN r
                   ELSE [r EXCEPT !.indications = Or(r.indications, picked.indications),
                                  !.contraindications = Or(r.contraindications, picked.contraindications),
                                  !.interactions = Or(r.interactions, picked.interactions),
                                  !.pregnancy_category = Or(r.pregnancy_category, picked.pregnancy_category),
                                  !.source = IF Truthy(r.source)
                                             THEN Str(r.source.s \o SRC_DRUGBANK_APPENDED)
                                             ELSE SRC_DRUGBANK]]
  ELSE [raised |-> FALSE, picked |-> NoPick, rec |-> r]

\* The end of the DrugBank step: query_by_name has returned `detail`.
DrugBankDone(detail) ==
  LET m == DrugBankMerge(rec, detail)
  IN /\ rec' = m.rec
     /\ hist' = [hist EXCEPT !.db_calls = @ + 1,
                              !.db_detail = JTruthy(detail),
                              !.picked = m.picked,
                              !.db_filled = Filled(rec, m.rec),
                              !.full_after = FullAfter(@, "drugbank", m.rec)]
     /\ pc' = IF m.raised THEN "raised" ELSE "offline"

\* An exception of _get that leaves query_by_name uncaught.
QueryFailedUncaught ==
  /\ pc' = "raised"
  /\ UNCHANGED <<rec, hist>>

\* Lines 277-278: query_by_name catches whatever its _get raised and returns
\* None; build_records goes on with that.
QueryFailed == DrugBankDone(JFalsy)

\* Line 414 false: DrugBank is off, or no field is empty.
DrugBankSkip ==
  /\ pc = "drugbank"
  /\ ~DrugBankGuard(rec, use_drugbank)
  /\ pc' = "offline"
  /\ UNCHANGED <<input, output, llm, ptext, pout, in_file, args, api_key, names, use_drugbank, idx, rec, records, get, hist, logs, out>>

\* query_by_name, lines 267-274, on the answer j of the search: the detail it
\* returns at once ([now |-> TRUE]) or the need of the second request.
AfterSearch(j) ==
  IF ~JTruthy(j) THEN [now |-> TRUE, detail |-> JFalsy]
  ELSE IF j.kind = "scalar" \/ (j.kind = "list" /\ ~j.firstMapping)
       THEN [now |-> TRUE, detail |-> JFalsy]    \* first.get raises, line 277 returns None
  ELSE LET first == j.obj
           drug_id == Or(first.id, first.drugbank_id)
       IN IF ~Truthy(drug_id)
          THEN [now |-> TRUE, detail |-> JDict(first)]
          ELSE [now |-> FALSE, detail |-> JFalsy]

\* Lines 414-423: one attempt of the _get("drugs") of query_by_name.
DrugBankSearch ==
  /\ pc = "drugbank"
  /\ DrugBankGuard(rec, use_drugbank)
  /\ \E outcome \in Outcomes("drugbank") :
       LET g == Attempt(CurrentGet("drugbank"), outcome)
       IN /\ get' = g
          /\ CASE g.status = "running" -> UNCHANGED <<rec, hist, pc>>
               [] g.status \in {"raised", "propagated"} -> QueryFailed
               [] OTHER ->
                    \E j \in SearchResponses :
                      LET a == AfterSearch(j)
                      IN IF a.now THEN DrugBankDone(a.detail)
                         ELSE /\ pc' = "db_detail"
                              /\ UNCHANGED <<rec, hist>>
  /\ UNCHANGED <<input, output, llm, ptext, pout, in_file, args, api_key, names, use_drugbank, idx, records, logs, out>>

\* Lines 275-278 and 416-423: one attempt of the _get("drugs/<id>").
DrugBankDetail ==
  /\ pc = "db_detail"
  /\ \E outcome \in Outcomes("drugbank") :
       LET g == Attempt(CurrentGet("drugbank"), outcome)
       IN /\ get' = g
          /\ CASE g.status = "running" -> UNCHANGED <<rec, hist, pc>>
               [] g.status \in {"raised", "propagated"} -> QueryFailed
               [] OTHER -> \E detail \in DetailResponses : DrugBankDone(detail)
  /\ UNCHANGED <<input, output, llm, ptext, pout, in_file, args, api_key, names, use_drugbank, idx, records, logs, out>>

\* Lines 428-434 with the text scan_offline_label returned.
OfflineMerge(r, text) ==
  IF Truthy(text)
  THEN LET parsed == parse_cn_label_text(text.s)
       IN [r EXCEPT !.indications = parsed.indications,
                    !.contraindications = parsed.contraindications,
                    !.interactions = parsed.interactions,
                    !.pregnancy_category = parsed.pregnancy_category,
                    !.source = SRC_OFFLINE]
  ELSE r

\* Line 426 false: some field is filled.
OfflineSkip ==
  /\ pc = "offline"
  /\ ~OfflineGuard(rec)
  /\ pc' = "default"
  /\ UNCHANGED <<input, output, llm, ptext, pout, in_file, args, api_key, names, use_drugbank, idx, rec, records, get, hist, logs, out>>

\* Lines 426-434.
OfflineStep ==
  /\ pc = "offline"
  /\ OfflineGuard(rec)
  /\ LET scan == scan_offline_label(rec.name, nmpa_offline_dir)
         r == OfflineMerge(rec, scan.text)
     IN /\ rec' = IF scan.raised THEN rec ELSE r
        /\ hist' = [hist EXCEPT !.off_calls = @ + 1,
                                 !.off_text = Truthy(scan.text),
                                 !.parsed = IF Truthy(scan.text)
                                            THEN parse_cn_label_text(scan.text.s)
                                            ELSE NoPick,
                                 !.off_raised = scan.raised,
                                 !.off_filled = IF scan.raised THEN {} ELSE Filled(rec, r),
                                 !.full_after = FullAfter(@, "offline", rec')]
        /\ pc' = IF scan.raised THEN "raised" ELSE "default"
  /\ UNCHANGED <<input, output, llm, ptext, pout, in_file, args, api_key, names, use_drugbank, idx, records, get, logs, out>>

\* The defaults without the one of pregnancy_category.
FillDefaultsNoPregnancy(r) ==
  [r EXCEPT !.indications = IF ~Truthy(@) THEN Unannotated ELSE @,
            !.contraindications = IF ~Truthy(@) THEN Unannotated ELSE @,
            !.interactions = IF ~Truthy(@) THEN Unannotated ELSE @,
            !.source = IF ~Truthy(@) THEN SRC_UNKNOWN ELSE @]

\* The defaults without the one of source.
FillDefaultsNoSource(r) ==
  [r EXCEPT !.indications = IF ~Truthy(@) THEN Unannotated ELSE @,
            !.contraindications = IF ~Truthy(@) THEN Unannotated ELSE @,
            !.interactions = IF ~Truthy(@) THEN Unannotated ELSE @,
            !.pregnancy_category = IF ~Truthy(@) THEN Unannotated ELSE @]

\* Lines 437-441.
FillDefaults(r) ==
  [r EXCEPT !.indications = IF ~Truthy(@) THEN Unannotated ELSE @,
            !.contraindications = IF ~Truthy(@) THEN Unannotated ELSE @,
            !.interactions = IF ~Truthy(@) THEN Unannotated ELSE @,
            !.pregnancy_category = IF ~Truthy(@) THEN Unannotated ELSE @,
            !.source = IF ~Truthy(@) THEN SRC_UNKNOWN ELSE @]

\* Lines 436-443: the defaults, and the record joins records.
Default ==
  /\ pc = "default"
  /\ rec' = FillDefaults(rec)
  /\ records' = Append(records, rec')
  /\ logs' = Append(logs, hist)
  /\ idx' = idx + 1
  /\ pc' = "loop"
  /\ UNCHANGED <<input, output, llm, ptext, pout, in_file, args, api_key, names, use_drugbank, get, hist, out>>

Next ==
  \/ Main
  \/ Setup
  \/ NextName
  \/ Save
  \/ OnlineSkip
  \/ OnlineStep
  \/ DrugBankSkip
  \/ DrugBankSearch
  \/ DrugBankDetail
  \/ OfflineSkip
  \/ OfflineStep
  \/ Default

Spec == Init /\ [][Next]_vars

\* ------------------------------------------------------------------------
\* The label parser on its own: slice_section and parse_cn_label_text applied
\* to every text of at most MaxTextLen tokens over two alphabets.
\* ------------------------------------------------------------------------
\* Headings, markers, brackets that are no marker, and what follows a heading.
SliceAlphabet == {"[[IND]]", "IND", "[[DOSAGE]]", "[[]]", "[[x*21]]", "::", "\n", "x"}

\* The pregnancy heading, the keywords of lines 140 and 142, a marker.
PregAlphabet == {"[[PREG-LACT]]", "forbidden", "caution", "risk", "benefit", "[[DOSAGE]]", " "}

\* The texts of at most n tokens of S.
TextsUpTo(S, n) == UNION {[1..k -> S] : k \in 0..n}

LabelTexts == TextsUpTo(SliceAlphabet, MaxTextLen) \cup TextsUpTo(PregAlphabet, MaxTextLen)

InitText ==
  /\ in_file = <<>>
  /\ args = [no_nmpa_online |-> TRUE, no_drugbank |-> TRUE, nmpa_offline_dir |-> FolderUnset]
  /\ api_key = FALSE
  /\ names = <<>>
  /\ use_drugbank = FALSE
  /\ idx = 0
  /\ rec = DrugRecord(<<>>)
  /\ records = <<>>
  /\ pc = "text"
  /\ get = IdleGet
  /\ hist = NewHist
  /\ logs = <<>>
  /\ out = [written |-> FALSE, rows |-> <<>>]
  /\ ptext \in LabelTexts
  /\ pout = NoOutput
  /\ input = NoCall
  /\ output = NoCall
  /\ llm = NoCall

\* slice_section(ptext, pat) for the pattern of one key of SECTION_PATTERNS.
SliceSection ==
  /\ pc = "text"
  /\ \E key \in FieldSet :
       pout' = [key |-> key, sliced |-> slice_section(ptext, key), parsed |-> NoPick]
  /\ pc' = "sliced"
  /\ UNCHANGED <<input, output, llm, ptext, in_file, args, api_key, names, use_drugbank, idx, rec, records, get, hist, logs, out>>

\* parse_cn_label_text(ptext)
ParseLabel ==
  /\ pc = "text"
  /\ pout' = [key |-> "none", sliced |-> None, parsed |-> parse_cn_label_text(ptext)]
  /\ pc' = "parsed"
  /\ UNCHANGED <<input, output, llm, ptext, in_file, args, api_key, names, use_drugbank, idx, rec, records, get, hist, logs, out>>

\* Every second specification starts from a run that has not begun.
InitAlone ==
  /\ in_file = <<>>
  /\ args = [no_nmpa_online |-> TRUE, no_drugbank |-> TRUE, nmpa_offline_dir |-> FolderUnset]
  /\ api_key = FALSE
  /\ names = <<>>
  /\ use_drugbank = FALSE
  /\ idx = 0
  /\ rec = DrugRecord(<<>>)
  /\ records = <<>>
  /\ get = IdleGet
  /\ hist = NewHist
  /\ logs = <<>>
  /\ out = [written |-> FALSE, rows |-> <<>>]
  /\ ptext = <<>>
  /\ pout = NoOutput

NextText ==
  \/ SliceSection
  \/ ParseLabel

SpecText == InitText /\ [][NextText]_vars

\* ------------------------------------------------------------------------
\* Properties
\* ------------------------------------------------------------------------
\* The places of a run inside one record's source chain.
SourceSteps == {"online", "drugbank", "db_detail", "offline"}

\* Whether a source produced real content for field f of the record of h.
GotContent(h, f) ==
  \/ Truthy(h.on_parsed[f]) /\ h.on_parsed[f] # Unannotated
  \/ Truthy(h.picked[f])
  \/ Truthy(h.parsed[f]) /\ h.parsed[f] # Unannotated

\* What the offline folder holds for a name, parsed; nothing when it holds no
\* usable label.
WouldOffline(name) ==
  LET scan == scan_offline_label(name, nmpa_offline_dir)
  IN IF scan.raised \/ ~Truthy(scan.text) THEN NoPick
     ELSE parse_cn_label_text(scan.text.s)

\* C1: every record of records has its four content fields non-empty, and a
\* field no source produced content for holds the sentinel Unannotated.
C1_SentinelComplete ==
  \A k \in 1..Len(records) : \A f \in FieldSet :
    /\ Truthy(records[k][f])
    /\ (~GotContent(logs[k], f) => records[k][f] = Unannotated)

\* A record with one field from a source and another field defaulted.
C1_Witness ==
  \E k \in 1..Len(records) :
    /\ \E f \in FieldSet : ~GotContent(logs[k], f) /\ records[k][f] = Unannotated
    /\ \E f \in FieldSet : GotContent(logs[k], f) /\ records[k][f] # Unannotated

\* C2: when a source of higher priority produced non-empty content for a
\* field and a source of lower priority had content for it too, the record
\* holds the content of the higher one (Online > DrugBank > Offline).
C2_PriorityPrecedence ==
  \A k \in 1..Len(records) : \A f \in FieldSet :
    LET h == logs[k]
        lower == WouldOffline(records[k].name)
    IN /\ (Truthy(h.on_parsed[f]) /\ (Truthy(h.picked[f]) \/ Truthy(lower[f]))
            => records[k][f] = h.on_parsed[f])
       /\ (~Truthy(h.on_parsed[f]) /\ Truthy(h.picked[f]) /\ Truthy(lower[f])
            => records[k][f] = h.picked[f])

\* A record with a field DrugBank filled while the folder holds a label with
\* the same section for that name.
C2_Witness ==
  \E k \in 1..Len(records) : \E f \in FieldSet :
    /\ Truthy(logs[k].picked[f])
    /\ Truthy(WouldOffline(records[k].name)[f])
    /\ WouldOffline(records[k].name)[f] \notin {logs[k].picked[f], Unannotated}
    /\ records[k][f] = logs[k].picked[f]

\* No source was called after the step that left all four fields non-empty.
ShortCircuited(h) ==
  /\ ("online" \in h.full_after => h.db_calls = 0 /\ h.off_calls = 0)
  /\ ("drugbank" \in h.full_after => h.off_calls = 0)

\* C3: once all four fields are non-empty after a source step, no later
\* source of the chain is called for that record.
C3_ShortCircuit ==
  /\ ShortCircuited(hist)
  /\ \A k \in 1..Len(logs) : ShortCircuited(logs[k])

\* A record DrugBank completed, for a name the folder holds a full label of.
C3_Witness ==
  \E k \in 1..Len(records) :
    /\ "drugbank" \in logs[k].full_after
    /\ logs[k].db_calls = 1
    /\ logs[k].off_calls = 0
    /\ \A f \in FieldSet : Truthy(WouldOffline(records[k].name)[f])

\* The labels a source string names, in order.
LabelsOf(src) ==
  IF src = SRC_UNKNOWN THEN <<>>
  ELSE [k \in 1..Len(src.s) |-> IF src.s[k] = " + DrugBank" THEN "DrugBank" ELSE src.s[k]]

\* The labels of the sources that filled a field, in query order.
Contributors(h) ==
  (IF h.on_filled # {} THEN <<"NMPA-label(online)">> ELSE <<>>)
  \o (IF h.db_filled # {} THEN <<"DrugBank">> ELSE <<>>)
  \o (IF h.off_filled # {} THEN <<"NMPA-label(offline)">> ELSE <<>>)

\* C4: the source of every record names exactly the sources that filled at
\* least one of its fields, in query order.
C4_ProvenanceExact ==
  \A k \in 1..Len(records) : LabelsOf(records[k].source) = Contributors(logs[k])

\* new is old, or old with one label appended.
IsAppendOf(old, new) ==
  \/ new = old
  \/ /\ Len(new.s) = Len(old.s) + 1
     /\ SubSeq(new.s, 1, Len(old.s)) = old.s

\* A step of the source chain appends to source or leaves it.
AppendOnlyStep == pc \in SourceSteps => IsAppendOf(rec.source, rec'.source)

\* C5: a source step leaves the source string as it was or appends one label
\* to it.
C5_ProvenanceAppendOnly == [][AppendOnlyStep]_vars

\* A step of the source chain, or the defaults, keeps the non-empty fields.
MonotonicStep ==
  pc \in SourceSteps \cup {"default"}
    => \A f \in FieldSet : Truthy(rec[f]) => rec'[f] = rec[f]

\* C6: a field that is non-empty keeps its value through every later source
\* step and through the defaults.
C6_MonotonicCompletion == [][MonotonicStep]_vars

\* A record DrugBank filled in part has gone through the offline step and
\* the defaults with those fields as DrugBank gave them.
C6_Witness ==
  /\ pc = "loop"
  /\ idx > 1
  /\ hist.db_filled \notin {{}, FieldSet}
  /\ \A f \in hist.db_filled : rec[f] = hist.picked[f]
  /\ \E f \in FieldSet \ hist.db_filled : rec[f] = Unannotated

\* No source had anything for the record of h, and none raised.
NothingFound(h) == ~h.on_text /\ ~h.db_detail /\ ~h.off_text /\ ~h.off_raised

AllUnannotated(name) ==
  [name |-> name, indications |-> Unannotated, contraindications |-> Unannotated,
   interactions |-> Unannotated, pregnancy_category |-> Unannotated, source |-> SRC_UNKNOWN]

\* C7: a name for which the online search gave nothing, query_by_name gave
\* None or was off and the offline scan found nothing has its record in
\* records, all four fields Unannotated and the source the unknown marker;
\* nothing is raised for it.
C7_AllSourcesAbsent ==
  /\ \A k \in 1..Len(records) :
       NothingFound(logs[k]) => records[k] = AllUnannotated(names[k])
  /\ (pc = "loop" => Len(records) = idx - 1)
  /\ (pc = "raised" => ~NothingFound(hist))

\* Such a record, with the three sources called.
C7_Witness ==
  \E k \in 1..Len(records) :
    /\ NothingFound(logs[k])
    /\ logs[k].online_calls = 1 /\ logs[k].db_calls = 1 /\ logs[k].off_calls = 1
    /\ records[k] = AllUnannotated(names[k])

\* C8: when the run is over, records holds one record per name, in order.
C8_EveryRecordEmitted ==
  pc \in {"done", "raised"}
    => /\ Len(records) = Len(names)
       /\ \A k \in 1..Len(names) : records[k].name = names[k]

\* C9: a DrugBank answer of an unexpected shape raises nothing out of
\* build_records.
C9_SchemaErrorIsAbsent == ~(pc = "raised" /\ hist.db_detail)

\* C10: a _get whose attempts 1 and 2 fail with a transient error and whose
\* attempt 3 succeeds returns, after two waits, the second longer than the
\* first; a _get that returns at attempt k has made k requests and k-1 waits.
C10_RetryThenSuccess ==
  /\ (get.outcomes = <<"transient", "transient", "ok">>
       => /\ get.status = "returned"
          /\ Len(get.waits) = 2
          /\ get.waits[2] > get.waits[1])
  /\ (get.status = "returned"
       => /\ get.requests <= MaxAttempts
          /\ get.requests = Len(get.outcomes)
          /\ Len(get.waits) = get.requests - 1)

\* A DrugBank _get that returned at its third attempt.
C10_Witness ==
  /\ get.client = "drugbank"
  /\ get.status = "returned"
  /\ get.outcomes = <<"transient", "transient", "ok">>

\* C11: when the _get of a source has used up its attempts, the step that
\* ends it leaves the record as it was (the source contributes nothing),
\* hands the record to the next source, and touches no other record.
ExhaustionStep ==
  (get' # get /\ get'.status = "raised") =>
    /\ get'.requests = MaxAttempts
    /\ \A n \in 1..MaxAttempts : get'.outcomes[n] # "ok"
    /\ rec' = rec
    /\ pc' = (IF get'.client = "nmpa" THEN "drugbank" ELSE "offline")
    /\ records' = records
    /\ logs' = logs
    /\ idx' = idx
    /\ names' = names

C11_RetryExhaustion == [][ExhaustionStep]_vars

\* Both clients exhausted for the second name, whose record joined the first.
C11_Witness ==
  /\ pc = "loop"
  /\ Len(records) = 2
  /\ get.client = "drugbank"
  /\ get.status = "raised"
  /\ get.requests = MaxAttempts
  /\ logs[2].online_calls = 1
  /\ logs[2].db_calls = 1
  /\ ~logs[2].db_detail
  /\ logs[2].db_filled = {}
  /\ Truthy(records[1].indications)
  /\ records[1].indications # Unannotated
\* C12: only a transient failure is retried: an attempt that fails in any
\* other way, a body that is not JSON among them, is the last attempt of its
\* call, with no wait and no request after it.
C12_OnlyTransientRetried ==
  \A n \in 1..Len(get.outcomes) :
    get.outcomes[n] \in {"badjson", "other"}
      => /\ n = Len(get.outcomes)
         /\ get.requests = n
         /\ Len(get.waits) = n - 1
         /\ get.status = "propagated"

\* C13: a call makes at most three requests; the waits are 1 s, then twice
\* the wait before, each between 1 s and 8 s; there is one wait between two
\* attempts and none after the last.
C13_RetryBoundAndBackoff ==
  /\ get.requests <= 3
  /\ Len(get.outcomes) = get.requests
  /\ \A n \in 1..Len(get.waits) :
       /\ get.waits[n] >= 1
       /\ get.waits[n] <= 8
       /\ get.waits[n] = (IF n = 1 THEN 1 ELSE 2 * get.waits[n - 1])
  /\ get.status = "running" => Len(get.waits) = get.requests
  /\ get.status \in {"returned", "propagated", "raised"} => Len(get.waits) = get.requests - 1

\* A call that gave up after its third request, having waited 1 s and 2 s.
C13_Witness ==
  /\ get.status = "raised"
  /\ get.requests = 3
  /\ get.waits = <<1, 2>>
\* Two records whose sources, where both were asked, answered alike.
SameResponses(a, b) ==
  /\ (a.online_calls > 0 /\ b.online_calls > 0)
       => (a.on_text = b.on_text /\ a.on_parsed = b.on_parsed)
  /\ (a.db_calls > 0 /\ b.db_calls > 0)
       => (a.db_detail = b.db_detail /\ a.picked = b.picked)
  /\ (a.off_calls > 0 /\ b.off_calls > 0)
       => (a.off_text = b.off_text /\ a.parsed = b.parsed)

\* C14: a name resolved twice, with the same answers of the sources both
\* times, gives two equal records, the source field included, whatever its
\* position in the list.
C14_Deterministic ==
  \A j, k \in 1..Len(records) :
    (names[j] = names[k] /\ SameResponses(logs[j], logs[k]))
      => records[j] = records[k]

\* The same name twice, DrugBank answering both times with the same fields.
C14_Witness ==
  /\ Len(records) = 2
  /\ names[1] = names[2]
  /\ logs[1].db_detail
  /\ logs[2].db_detail
  /\ logs[1].picked = logs[2].picked
  /\ Truthy(logs[1].picked.indications)
  /\ records[1] = records[2]
  /\ records[1].source = SRC_DRUGBANK
\* The source string names DrugBank.
NamesDrugBank(src) == \E n \in 1..Len(src.s) : src.s[n] \in {"DrugBank", " + DrugBank"}

\* C15: without an API key DrugBank is off from before the first record to
\* the end: no query_by_name call for any name, no DrugBank label in any
\* source, and no run that fails for the missing key.
C15_CredentialGating ==
  ~api_key =>
    /\ ~use_drugbank
    /\ get.client # "drugbank"
    /\ pc # "db_detail"
    /\ hist.db_calls = 0
    /\ ~NamesDrugBank(rec.source)
    /\ \A k \in 1..Len(records) :
         /\ logs[k].db_calls = 0
         /\ ~NamesDrugBank(records[k].source)
    /\ pc = "raised" => hist.off_raised
    /\ pc = "aborted" => names = <<>>

\* A finished run of two names, DrugBank asked for on the command line but
\* no key in the environment.
C15_Witness ==
  /\ ~api_key
  /\ ~args.no_drugbank
  /\ pc = "done"
  /\ Len(records) = 2
  /\ out.written
\* Every line of the input file is empty or whitespace only.
AllBlank(lines) == \A k \in 1..Len(lines) : \A n \in 1..Len(lines[k]) : lines[k][n] \in WS

\* C16: the run aborts before build_records exactly when the input file
\* holds no name (only blank lines, or none); an aborted run asked no source,
\* resolved no record and wrote no output.
C16_EmptyInputFatal ==
  /\ pc # "main" => (pc = "aborted" <=> AllBlank(in_file))
  /\ pc = "aborted"
       => /\ names = <<>>
          /\ idx = 0
          /\ records = <<>>
          /\ logs = <<>>
          /\ get = IdleGet
          /\ hist = NewHist
          /\ ~out.written
          /\ out.rows = <<>>

\* A file of blank lines only, and the run aborted.
C16_Witness ==
  /\ pc = "aborted"
  /\ Len(in_file) >= 1
  /\ \E k \in 1..Len(in_file) : in_file[k] # <<>>
\* The text of the pregnancy section of ptext, empty when there is none.
PregSection ==
  LET sec == slice_section(CollapseWS(ptext), "pregnancy_category")
  IN IF Truthy(sec) THEN sec.s ELSE <<>>

ProhibitionIn(toks) ==
  \E k \in 1..Len(toks) : toks[k] \in {"forbidden", "strictly-forbidden", "use-prohibited"}

CautionIn(toks) ==
  \/ \E k \in 1..Len(toks) : toks[k] \in {"caution", "weigh-benefit"}
  \/ \E a \in 1..Len(toks) : \E b \in (a + 1)..Len(toks) : toks[a] = "risk" /\ toks[b] = "benefit"

\* C17: the pregnancy category the parser gives is one of three distinct
\* labels: Contraindicated when the pregnancy section holds a prohibition
\* keyword, whether or not a caution keyword is there too; Caution when it
\* holds a caution keyword and no prohibition keyword; Unannotated when it
\* holds neither or there is no section.
C17_PregnancyClassification ==
  pc = "parsed" =>
    LET p == pout.parsed.pregnancy_category
    IN /\ Cardinality({PregContraindicated, PregCaution, Unannotated}) = 3
       /\ p \in {PregContraindicated, PregCaution, Unannotated}
       /\ ProhibitionIn(PregSection) => p = PregContraindicated
       /\ (CautionIn(PregSection) /\ ~ProhibitionIn(PregSection)) => p = PregCaution
       /\ (~CautionIn(PregSection) /\ ~ProhibitionIn(PregSection)) => p = Unannotated

\* A pregnancy section with a caution keyword before a prohibition keyword.
C17_Witness ==
  /\ pc = "parsed"
  /\ \E a, b \in 1..Len(PregSection) :
       a < b /\ PregSection[a] = "caution" /\ PregSection[b] = "forbidden"
  /\ pout.parsed.pregnancy_category = PregContraindicated

\* The least member of a non-empty set of numbers.
Least(S) == CHOOSE k \in S : \A m \in S : k <= m

\* C18: slice_section gives the text between the end of the first heading
\* match (the heading and the colons and whitespace after it) and the next
\* pair of brackets with 1 to 20 characters inside, or the end of the text,
\* with every run of whitespace made one space and the ends trimmed; it gives
\* None when no heading matches or nothing but whitespace is left.
C18_SectionBoundary ==
  pc = "sliced" =>
    LET t == ptext
        n == Len(t)
        heads == {k \in 1..n : t[k] \in HeadTokens(pout.key)}
    IN IF heads = {} THEN pout.sliced = None
       ELSE LET m == Least(heads)
                from == Least({k \in (m + 1)..(n + 1) : k = n + 1 \/ t[k] \notin {"::", ":", " ", "\n"}})
                upto == Least({k \in from..(n + 1) :
                                 \/ k = n + 1
                                 \/ (t[k] \in BracketTokens /\ TokLen(t[k]) - 2 >= 1 /\ TokLen(t[k]) - 2 <= 20)})
                seg == SubSeq(t, from, upto - 1)
                body == Strip(CollapseWS(seg))
            IN IF \A k \in 1..Len(seg) : seg[k] \in {" ", "\n"}
               THEN pout.sliced = None
               ELSE /\ pout.sliced = Str(body)
                    /\ body[1] \notin {" ", "\n"}
                    /\ body[Len(body)] \notin {" ", "\n"}
                    /\ \A k \in 1..Len(body) : body[k] # "\n"
                    /\ \A k \in 1..(Len(body) - 1) : ~(body[k] = " " /\ body[k + 1] = " ")
                    /\ SelectSeq(body, LAMBDA c : c # " ")
                         = SelectSeq(seg, LAMBDA c : c \notin {" ", "\n"})

\* The heading, "x", a newline, "x", then the next marker: sliced to "x x".
C18_Witness ==
  /\ pc = "sliced"
  /\ pout.key = "indications"
  /\ Len(ptext) = 5
  /\ ptext[1] = "[[IND]]"
  /\ ptext[3] = "\n"
  /\ ptext[5] = "[[DOSAGE]]"
  /\ pout.sliced = Str(<<"x", " ", "x">>)
\* The source string names the online label.
NamesOnline(src) == \E n \in 1..Len(src.s) : src.s[n] = "NMPA-label(online)"

\* C19: whatever the search request did, the online source finds no page:
\* fetch_label_text is never called, the online step fills no field, and no
\* source names the online label.
C19_OnlineInert ==
  /\ hist.fetch_calls = 0
  /\ ~hist.on_text
  /\ hist.on_filled = {}
  /\ ~NamesOnline(rec.source)
  /\ (pc = "drugbank" /\ hist.db_calls = 0) => rec = DrugRecord(names[idx])
  /\ \A k \in 1..Len(records) :
       /\ logs[k].fetch_calls = 0
       /\ ~logs[k].on_text
       /\ logs[k].on_filled = {}
       /\ ~NamesOnline(records[k].source)

\* The search request answered at once, and the record still untouched.
C19_Witness ==
  /\ pc = "drugbank"
  /\ get.client = "nmpa"
  /\ get.status = "returned"
  /\ get.requests = 1
  /\ hist.online_calls = 1
  /\ rec = DrugRecord(names[idx])
\* C20: the offline scan never raises: whatever the folder is (unset,
\* missing, not listable, holding unreadable files), scan_offline_label
\* returns and the record goes on to its defaults.
C20_OfflineNeverFails ==
  /\ ~hist.off_raised
  /\ hist.off_calls > 0 => pc # "raised"
\* C21: a source that is switched on is invoked exactly when at least one of
\* the four fields is still empty: DrugBank after the online step, and the
\* offline folder after the DrugBank step.
ConsultStep ==
  /\ (pc = "drugbank" /\ use_drugbank /\ get.client # "drugbank")
       => ((get'.client = "drugbank") <=> ~AllFields(rec))
  /\ (pc = "offline" /\ nmpa_offline_dir.set /\ pc' # "offline")
       => ((hist'.off_calls = hist.off_calls + 1) <=> ~AllFields(rec))

C21_ConsultedIffGap == [][ConsultStep]_vars
\* C22: while a record is in the source chain, and until the defaulting
\* step has run, none of its four fields holds the Unannotated sentinel: a
\* field the sources found nothing for is still empty.
C22_SentinelOnlyAtDefault ==
  pc \in {"online", "drugbank", "db_detail", "offline", "default"}
    => \A f \in FieldSet : rec[f] # Unannotated
\* ------------------------------------------------------------------------
\* scan_offline_label on its own: every listing of at most MaxFiles entries
\* with distinct names.
\* ------------------------------------------------------------------------
\* Texts of 50 characters and a newline, and of 51 characters.
Text50NL == <<"x*40", "x*10", "\n">>

Text51x == <<"x*40", "x*10", "x">>

Text51y == <<"x*40", "x*10", "y">>

FilePool ==
  {File(stem, ext, TRUE, text) :
     stem \in {<<"a">>, <<"A">>},
     ext \in {"html", "HTM", "pdf", "txt"},
     text \in {Text50NL, Text51x, Text51y}}
  \cup {File(<<"b">>, "html", TRUE, Text51y)}

\* No two entries of a directory have the same name.
DistinctNames(files) ==
  \A j, k \in 1..Len(files) : j # k => FileName(files[j]) # FileName(files[k])

ScanNames == {<<"a">>, <<"B">>}

InitScan ==
  /\ InitAlone
  /\ pc = "scan"
  /\ \E k \in 0..MaxFiles : \E files \in [1..k -> FilePool] : \E drug_name \in ScanNames :
       /\ DistinctNames(files)
       /\ input = [op |-> "scan", drug_name |-> drug_name,
                   folder |-> [set |-> TRUE, isdir |-> TRUE, listable |-> TRUE, files |-> files]]
  /\ output = NoCall
  /\ llm = NoCall

\* scan_offline_label(drug_name, folder)
ScanOffline ==
  /\ pc = "scan"
  /\ LET scan == scan_offline_label(input.drug_name, input.folder)
     IN output' = [op |-> "scan", raised |-> scan.raised, text |-> scan.text]
  /\ pc' = "scanned"
  /\ UNCHANGED <<input, llm, ptext, pout, in_file, args, api_key, names, use_drugbank, idx, rec, records, get, hist, logs, out>>

NextScan == ScanOffline

SpecScan == InitScan /\ [][NextScan]_vars

\* C23: scan_offline_label looks at the entries whose name holds the drug
\* name, whatever the case, and that are HTML/HTM or PDF files; it returns
\* the extracted text of the one that comes first, HTML before PDF and then
\* by path, among those whose text is longer than 50 characters, and None
\* when there is none (a text of exactly 50 characters does not count).
C23_OfflineSelection ==
  pc = "scanned" =>
    LET files == input.folder.files
        Extracted(k) == IF IsHtml(files[k]) THEN read_html_text(files[k]) ELSE read_pdf_text(files[k])
        Good == {k \in 1..Len(files) :
                   /\ NameMatches(input.drug_name, FileName(files[k]))
                   /\ files[k].ext \in {"html", "htm", "HTML", "HTM", "pdf", "PDF"}
                   /\ StrLen(Extracted(k)) > 50}
        Before(j, k) ==
          \/ IsHtml(files[j]) /\ ~IsHtml(files[k])
          \/ /\ IsHtml(files[j]) = IsHtml(files[k])
             /\ StrLess(FileName(files[j]), FileName(files[k]))
    IN /\ ~output.raised
       /\ IF Good = {} THEN output.text = None
          ELSE \E k \in Good :
                 /\ \A j \in Good \ {k} : Before(k, j)
                 /\ output.text = Str(Extracted(k))

\* A PDF and two HTML files match, listed PDF first; the HTML file that
\* comes first by path has exactly 50 characters once stripped, and the text
\* of the other HTML file is returned, not that of the PDF.
C23_Witness ==
  /\ pc = "scanned"
  /\ input.drug_name = <<"a">>
  /\ Len(input.folder.files) = 3
  /\ input.folder.files[1] = File(<<"a">>, "pdf", TRUE, Text51x)
  /\ input.folder.files[2] = File(<<"a">>, "html", TRUE, Text51y)
  /\ input.folder.files[3] = File(<<"A">>, "HTM", TRUE, Text50NL)
  /\ output.text = Str(Text51y)
\* C24: between two consecutive requests of one client at least one second
\* passes: between two attempts of one call, and between the last request of
\* a call and the first request of the client's next call.
RateLimitStep ==
  /\ (get.status = "running" /\ get'.client = get.client /\ get'.requests = get.requests + 1)
       => 10 * get.waits[Len(get.waits)] >= 10
  /\ (get.status \in {"returned", "propagated", "raised"} /\ get'.client = get.client
        /\ get' # get /\ get'.requests = 1)
       => get.pause >= 10

C24_RateLimited == [][RateLimitStep]_vars
\* ------------------------------------------------------------------------
\* pick_fields on its own: details whose drug_interactions list has up to
\* MaxInteractions entries.
\* ------------------------------------------------------------------------
\* Entry k of a list: with description and name ("full"), with text and drug
\* ("text"), with a name only ("nodesc"), with a description only ("anon").
Entry(k, kind) ==
  CASE kind = "full" ->
         Interaction(Str(<<"d" \o ToString(k)>>), None, Str(<<"p" \o ToString(k)>>), None)
    [] kind = "text" ->
         Interaction(None, Str(<<"d" \o ToString(k)>>), None, Str(<<"p" \o ToString(k)>>))
    [] kind = "nodesc" ->
         Interaction(None, None, Str(<<"p" \o ToString(k)>>), None)
    [] kind = "anon" ->
         Interaction(Str(<<"d" \o ToString(k)>>), Str(<<>>), Str(<<>>), None)

EntryKinds == {"full", "text", "nodesc", "anon"}

\* The positions whose entry may differ from the others of its list.
SpecialAt == {1, InteractionCap, InteractionCap + 1}

InitPick ==
  /\ InitAlone
  /\ pc = "pick"
  /\ \E n \in 0..MaxInteractions : \E base \in {"full", "nodesc"} :
     \E special \in SUBSET SpecialAt : \E kind \in EntryKinds :
       input = [op |-> "pick",
                detail |-> JDict([ObjContraOnly EXCEPT !.drug_interactions =
                             [kind |-> "list",
                              items |-> [k \in 1..n |->
                                           Entry(k, IF k \in special THEN kind ELSE base)]]])]
  /\ output = NoCall
  /\ llm = NoCall

\* DrugBankClient.pick_fields(detail)
PickFields ==
  /\ pc = "pick"
  /\ LET pf == pick_fields(input.detail)
     IN output' = [op |-> "pick", raised |-> pf.raised, picked |-> pf.picked]
  /\ pc' = "picked"
  /\ UNCHANGED <<input, llm, ptext, pout, in_file, args, api_key, names, use_drugbank, idx, rec, records, get, hist, logs, out>>

NextPick == PickFields

SpecPick == InitPick /\ [][NextPick]_vars

DescToks == {"d" \o ToString(k) : k \in 1..(MaxInteractions + 1)}

PartnerToks == {"p" \o ToString(k) : k \in 1..(MaxInteractions + 1)}

\* C25: the interactions value of pick_fields is made of the entries among
\* the first 30 of the list that have a description (or text), in list
\* order, each as partner name and description, so of at most 30 pairs; it
\* is None, not an empty string, when none of them has one.
C25_InteractionCap ==
  pc = "picked" =>
    LET items == input.detail.obj.drug_interactions.items
        m == IF Len(items) < 30 THEN Len(items) ELSE 30
        HasDesc(k) == Truthy(items[k].description) \/ Truthy(items[k].text)
        HasPartner(k) == Truthy(items[k].name) \/ Truthy(items[k].drug)
        Pairs == SelectSeq([k \in 1..m |-> k], HasDesc)
        Named == SelectSeq(Pairs, HasPartner)
        got == output.picked.interactions
    IN /\ ~output.raised
       /\ IF Pairs = <<>> THEN got = None
          ELSE /\ got.some
               /\ SelectSeq(got.s, LAMBDA t : t \in DescToks)
                    = [i \in 1..Len(Pairs) |-> "d" \o ToString(Pairs[i])]
               /\ SelectSeq(got.s, LAMBDA t : t \in PartnerToks)
                    = [i \in 1..Len(Named) |-> "p" \o ToString(Named[i])]
               /\ Len(SelectSeq(got.s, LAMBDA t : t = ": ")) = Len(Pairs)
               /\ Len(SelectSeq(got.s, LAMBDA t : t = ";")) = Len(Pairs) - 1
               /\ Len(Pairs) <= 30

\* A list of more than 30 entries, all with a description but the first:
\* the value holds the 29 pairs of entries 2 to 30 and nothing of entry 31.
C25_Witness ==
  /\ pc = "picked"
  /\ Len(input.detail.obj.drug_interactions.items) > 30
  /\ ~Truthy(input.detail.obj.drug_interactions.items[1].description)
  /\ ~Truthy(input.detail.obj.drug_interactions.items[1].text)
  /\ \A k \in 2..31 : Truthy(input.detail.obj.drug_interactions.items[k].description)
  /\ Len(SelectSeq(output.picked.interactions.s, LAMBDA t : t \in DescToks)) = 29
  /\ \A n \in 1..Len(output.picked.interactions.s) : output.picked.interactions.s[n] # "d31"
\* ------------------------------------------------------------------------
\* llm_chat of pipeline.py
\*
\* llm is [op, retries, attempt, requests, outcomes, waits, status, result]:
\* attempt is the loop variable, outcomes what each request met, waits the
\* sleeps in seconds, status "running", "returned", "RuntimeError" or
\* "propagated" (an exception line 102 does not catch).
\* ------------------------------------------------------------------------
\* A value of msg.get("content", ""): a string, or something else.
Content(isstr, s) == [isstr |-> isstr, s |-> s]

\* What one request can meet: requests.post raises a RequestException
\* ("request_error"), raise_for_status raises on a status that is no success
\* ("http_error"), resp.json() raises a ValueError ("bad_json"), the JSON or
\* its "message" is no mapping and .get raises AttributeError
\* ("not_mapping"), or the content is read ("json": an absent message or
\* content reads as the empty string).
LlmResponses ==
  {[kind |-> k, content |-> Content(TRUE, <<>>)] :
     k \in {"request_error", "http_error", "bad_json", "not_mapping"}}
  \cup {[kind |-> "json", content |-> c] :
          c \in {Content(TRUE, <<>>), Content(TRUE, <<" ", "\n">>), Content(FALSE, <<>>),
                  Content(TRUE, <<"x">>), Content(TRUE, <<" ", "x", "\n">>)}}

\* Line 99: not isinstance(content, str) or not content.strip()
EmptyContent(c) == ~c.isstr \/ Strip(c.s) = <<>>

\* A loop that goes on while attempt <= retries.
AttemptsRemainInclusive(attempt, retries) == attempt <= retries

\* Line 104: attempt < retries
AttemptsRemain(attempt, retries) == attempt < retries

NewChat(retries) ==
  [op |-> "llm_chat", retries |-> retries, attempt |-> 0, requests |-> 0, outcomes |-> <<>>,
   waits |-> <<>>, status |-> "running", result |-> Content(FALSE, <<>>)]

InitLlm ==
  /\ InitAlone
  /\ pc = "llm"
  /\ input = NoCall
  /\ output = NoCall
  /\ \E retries \in 0..MaxRetries : llm = NewChat(retries)

\* One pass of the loop of lines 89-106.
LlmAttempt ==
  /\ pc = "llm"
  /\ llm.status = "running"
  /\ \E resp \in LlmResponses :
       LET h == [llm EXCEPT !.requests = @ + 1, !.outcomes = Append(@, resp)]
       IN llm' =
            CASE resp.kind = "not_mapping" -> [h EXCEPT !.status = "propagated"]
              [] resp.kind = "json" /\ ~EmptyContent(resp.content) ->
                   [h EXCEPT !.status = "returned", !.result = resp.content]
              [] OTHER ->
                   IF AttemptsRemain(llm.attempt, llm.retries)
                   THEN [h EXCEPT !.waits = Append(@, llm.attempt + 1),
                                  !.attempt = @ + 1,
                                  !.status = IF llm.attempt + 1 <= llm.retries
                                             THEN "running" ELSE "RuntimeError"]
                   ELSE [h EXCEPT !.status = "RuntimeError"]
  /\ UNCHANGED <<input, output, ptext, pout, in_file, args, api_key, names, use_drugbank, idx, rec, records, pc, get, hist, logs, out>>

NextLlm == LlmAttempt

SpecLlm == InitLlm /\ [][NextLlm]_vars

\* A request that failed in one of the ways llm_chat retries.
FailedRequest(o) ==
  \/ o.kind \in {"request_error", "http_error", "bad_json"}
  \/ o.kind = "json"
       /\ (~o.content.isstr \/ \A n \in 1..Len(o.content.s) : o.content.s[n] \in {" ", "\n"})

\* C26: llm_chat sends at most retries + 1 requests; it returns the content
\* of the first request answered with a string that is not blank and sends
\* nothing after it; a failed request is followed by a wait and another
\* request only while attempts remain; after retries + 1 failed requests it
\* raises RuntimeError; it never returns an empty string.
C26_LlmChatBounded ==
  llm.op = "llm_chat" =>
    /\ llm.requests <= llm.retries + 1
    /\ Len(llm.outcomes) = llm.requests
    /\ \A n \in 1..(llm.requests - 1) : FailedRequest(llm.outcomes[n])
    /\ \A n \in 1..Len(llm.waits) : llm.waits[n] >= 1
    /\ llm.status = "running"
         => /\ llm.requests <= llm.retries
            /\ Len(llm.waits) = llm.requests
            /\ \A n \in 1..llm.requests : FailedRequest(llm.outcomes[n])
    /\ llm.status = "returned"
         => /\ ~FailedRequest(llm.outcomes[llm.requests])
            /\ llm.outcomes[llm.requests].kind = "json"
            /\ llm.result = llm.outcomes[llm.requests].content
            /\ llm.result.isstr
            /\ llm.result.s # <<>>
            /\ Len(llm.waits) = llm.requests - 1
    /\ llm.status = "RuntimeError"
         => /\ llm.requests = llm.retries + 1
            /\ Len(llm.waits) = llm.retries
            /\ \A n \in 1..llm.requests : FailedRequest(llm.outcomes[n])
    /\ (llm.requests = llm.retries + 1 /\ FailedRequest(llm.outcomes[llm.requests]))
         => llm.status = "RuntimeError"

\* Three failed requests with two waits between them, then RuntimeError.
C26_Witness ==
  /\ llm.op = "llm_chat"
  /\ llm.retries = 2
  /\ llm.status = "RuntimeError"
  /\ llm.requests = 3
  /\ llm.waits = <<1, 2>>
  /\ llm.outcomes[1].kind = "http_error"
  /\ llm.outcomes[3].kind = "json"
=============================================================================
